---- MODULE Spec2Model ----
(***************************************************************************)
(* Model of build_pr_changes.py: the diff-to-spec extractor                *)
(* (get_specs_to_check) and the version expander                           *)
(* (expand_specs_to_check_package_versions, get_safe_versions).            *)
(*                                                                         *)
(* A Python string is modelled as a sequence of tokens; a token stands for *)
(* a run of characters that the program's regular expressions and splits   *)
(* never cut.  foo@2.1 is <<"foo", "@", "2.1">>, the empty string is     *)
(* <<>>.  The first token of a diff line is its first character.           *)
(***************************************************************************)
EXTENDS Integers, Sequences, FiniteSets, TLC

VARIABLES
    pc,                     \* position in the modelled function
    status,                 \* exit status of the process, -1 while it runs
    line,                   \* the diff line handled by the last step
    nlines,                 \* number of diff lines consumed so far
    specs,                  \* get_specs_to_check: specs
    changed_recipe,         \* get_specs_to_check: changed_recipe
    versions,               \* get_specs_to_check: versions
    variants,               \* get_specs_to_check: variants
    next_line_is_version,   \* get_specs_to_check: next_line_is_version
    recipes,                \* get_specs_to_check: recipes
    cutAt,                  \* number of the boundary marker chosen as the
                            \* cut between diff A and diff B, 0 if none
    specsA,                 \* specs returned for the lines before the cut
    runB,                   \* a separate run on the lines after the cut
    specs_to_check,         \* expander: the collection being expanded
    specs_in,               \* expander: the collection as passed in
    max_versions,           \* expander: the cap
    todo,                   \* expander: rest of specs_to_check.copy()
    answers,                \* recipe -> (err, stdout) of `spack versions`
    queries,                \* recipes queried so far, in order
    args,                   \* main: the parsed command line flags
    present,                \* specs for which `spack find` reports success
    installed,              \* main: installed
    passed,                 \* spack_install: passed
    failed,                 \* spack_install: failed
    rest,                   \* main: rest of the list a loop walks through
    cmds                    \* commands issued so far, in order

vars == <<pc, status, line, nlines, specs, changed_recipe, versions, variants,
          next_line_is_version, cutAt, specsA, runB, specs_to_check,
          specs_in, max_versions, todo, answers, queries, recipes, args,
          present, installed, passed, failed, rest, cmds>>

extractorVars == <<line, nlines, specs, changed_recipe, versions, variants,
                   next_line_is_version, cutAt, specsA, runB, recipes>>

expanderVars == <<specs_to_check, specs_in, max_versions, todo, answers,
                  queries>>

mainVars == <<args, present, installed, passed, failed, rest, cmds>>

----------------------------------------------------------------------------
(* Bounds *)

MaxLines == 5      \* diff lines fed to the extractor
MaxSpecs == 3      \* length of the collection passed to the expander
MaxCap   == 3      \* largest max_versions passed to the expander

----------------------------------------------------------------------------
(* Tokens *)

Q   == "\""
CS  == ", "
PKG == "var/spack/repos/builtin/packages/"
PY  == "/package.py"
IND == "    "

(* Diff lines the extractor is fed with. *)
BoundaryLine     == <<"diff --git", " a/f b/f">>
EmptyLine        == <<>>
ContextVersion   == <<" ", IND, "version(", Q, "9.9", Q, CS, "sha256=", Q, "abc", Q, ")">>
RemovedVariant   == <<"-", IND, "variant(", Q, "old", Q, CS, "default=True", ")">>
PathLine(r)      == <<"+", "++ b/", PKG, r, PY>>
OtherPathLine    == <<"+", "++ b/", "README.md">>
ContextPath      == <<" ", "+", "++ b/", PKG, "bar", PY>>
VersionDecl(v)   == <<"+", IND, "version(", Q, v, Q, CS, "sha256=", Q, "abc", Q, ")">>
VersionDeclLong  == <<"+", IND, "version(", Q, "3.0", Q, CS, "sha256=", Q, "abc", Q, CS, "deprecated=True", ")">>
VersionOpener    == <<"+", IND, "version(">>
VersionValue     == <<"+", IND, IND, Q, "4.0", Q, ",">>
VariantDecl(a)   == <<"+", IND, "variant(", Q, a, Q, CS, "default=True", ")">>
DependsLine      == <<"+", IND, "depends_on(", Q, "zlib", Q, ")">>
CommentLine      == <<"+", IND, "# comment">>

Recipes      == {"foo", "bar"}
VersionNames == {"2.1", "1.0"}
VariantNames == {"shared", "mpi"}

Lines ==
    {BoundaryLine, EmptyLine, ContextVersion, RemovedVariant, OtherPathLine,
     ContextPath,
     VersionDeclLong, VersionOpener, VersionValue, DependsLine, CommentLine}
    \cup {PathLine(r) : r \in Recipes}
    \cup {VersionDecl(v) : v \in VersionNames}
    \cup {VariantDecl(a) : a \in VariantNames}

----------------------------------------------------------------------------
(* String and list helpers *)

NoMatch == [found |-> FALSE, group |-> <<>>]
Match(g) == [found |-> TRUE, group |-> g]

Min(S) == CHOOSE x \in S : \A y \in S : x <= y
Max(S) == CHOOSE x \in S : \A y \in S : x >= y

(* x in list *)
In(x, list) == \E i \in 1..Len(list) : list[i] = x

(* list.remove(x): drops the first element equal to x *)
Remove(list, x) ==
    LET i == Min({k \in 1..Len(list) : list[k] = x})
    IN  SubSeq(list, 1, i - 1) \o SubSeq(list, i + 1, Len(list))

(* line.startswith(tok) *)
StartsWith(l, tok) == Len(l) > 0 /\ l[1] = tok

(* re.search for  \+\+\+ b/( .* )  in line *)
SearchChangedPath(l) ==
    LET S == {i \in 1..(Len(l) - 1) : l[i] = "+" /\ l[i + 1] = "++ b/"}
    IN  IF S = {} THEN NoMatch
        ELSE Match(SubSeq(l, Min(S) + 2, Len(l)))

(* re.search for  var/spack/repos/builtin/packages/( .* )/package.py  in file *)
SearchRecipe(f) ==
    LET E(i) == {j \in (i + 1)..Len(f) : f[j] = PY}
        S == {i \in 1..Len(f) : f[i] = PKG /\ E(i) # {}}
    IN  IF S = {} THEN NoMatch
        ELSE Match(SubSeq(f, Min(S) + 1, Max(E(Min(S))) - 1))

(* re.search for  version\($  in line *)
SearchVersionStart(l) == Len(l) > 0 /\ l[Len(l)] = "version("

(* re.search for  kw\(Q(.+)Q,   in line, where Q is the double quote and kw
   is version or variant: the group is greedy, it runs up to the last
   quote-comma-space of the line *)
SearchDecl(kw, l) ==
    LET E(i) == {j \in (i + 3)..(Len(l) - 1) : l[j] = Q /\ l[j + 1] = CS}
        S == {i \in 1..(Len(l) - 1) : l[i] = kw /\ l[i + 1] = Q /\ E(i) # {}}
    IN  IF S = {} THEN NoMatch
        ELSE Match(SubSeq(l, Min(S) + 2, Max(E(Min(S))) - 1))

(* re.search for  Q(.+)Q  in line: from the first to the last quote *)
SearchQuoted(l) ==
    LET E(i) == {j \in (i + 2)..Len(l) : l[j] = Q}
        S == {i \in 1..Len(l) : l[i] = Q /\ E(i) # {}}
    IN  IF S = {} THEN NoMatch
        ELSE Match(SubSeq(l, Min(S) + 1, Max(E(Min(S))) - 1))

----------------------------------------------------------------------------
(* get_specs_to_check: the body of the loop over the diff lines.  A run is
   the record of the function's locals that the loop reads or writes. *)

Run(sp, cr, ve, va, nl, ra) ==
    [specs |-> sp, changed_recipe |-> cr, versions |-> ve, variants |-> va,
     next_line_is_version |-> nl, raised |-> ra]

FreshRun == Run(<<>>, <<>>, <<>>, <<>>, FALSE, FALSE)

(* a boundary handler that keeps the current recipe *)
OnBoundary_KeepsRecipe(s) ==
    Run(s.specs, s.changed_recipe, <<>>, <<>>, FALSE, FALSE)

(* a boundary handler that leaves next_line_is_version as it is *)
OnBoundary_KeepsFlag(s) ==
    Run(s.specs, <<>>, <<>>, <<>>, s.next_line_is_version, FALSE)

(* lines 121-126: a file boundary resets the parse context *)
OnBoundary(s) == Run(s.specs, <<>>, <<>>, <<>>, FALSE, FALSE)

(* line 127: line[0] of an empty line raises IndexError *)
OnEmpty(s) == [s EXCEPT !.raised = TRUE]

(* lines 130-140: a changed-file path, +++ b/<file> *)
OnChangedPath(s, l) ==
    LET recipe == SearchRecipe(SearchChangedPath(l).group)
    IN  IF recipe.found
        THEN [s EXCEPT !.changed_recipe = recipe.group,
                       !.specs = Append(s.specs, recipe.group)]
        ELSE s

(* lines 130-138: the list recipes after line l *)
OnRecipes(rs, l) ==
    LET changed_path == SearchChangedPath(l)
        recipe       == SearchRecipe(changed_path.group)
    IN  IF StartsWith(l, "+") /\ changed_path.found /\ recipe.found
        THEN Append(rs, recipe.group)
        ELSE rs

(* lines 145-148 *)
OnVersionStart(s) == [s EXCEPT !.next_line_is_version = TRUE]

(* specs.remove(changed_recipe) if present, then specs.append(spec) *)
ReplaceBare(sp, recipe, spec) ==
    Append(IF In(recipe, sp) THEN Remove(sp, recipe) ELSE sp, spec)

(* a version handler that keeps next_line_is_version until a value is found *)
OnVersion_KeepsFlag(s, l) ==
    LET explicit == SearchDecl("version(", l)
        version  == IF explicit.found THEN explicit ELSE SearchQuoted(l)
    IN  IF version.found
        THEN [s EXCEPT !.next_line_is_version = FALSE,
                       !.specs = ReplaceBare(s.specs, s.changed_recipe,
                                     s.changed_recipe \o <<"@">> \o version.group)]
        ELSE s

(* lines 149-159 *)
OnVersion(s, l) ==
    LET explicit == SearchDecl("version(", l)
        version  == IF explicit.found THEN explicit ELSE SearchQuoted(l)
    IN  IF version.found
        THEN [s EXCEPT !.next_line_is_version = FALSE,
                       !.specs = ReplaceBare(s.specs, s.changed_recipe,
                                     s.changed_recipe \o <<"@">> \o version.group)]
        ELSE [s EXCEPT !.next_line_is_version = FALSE]

(* lines 174-176: one spec per element of versions *)
VariantVersions(recipe, variant_str, vs) ==
    [i \in 1..Len(vs) |-> recipe \o variant_str \o <<"@">> \o vs[i]]

(* lines 165-176 *)
OnVariant(s, l) ==
    LET variant_str == <<"+">> \o SearchDecl("variant(", l).group
    IN  [s EXCEPT !.variants = Append(s.variants, variant_str),
                  !.specs = ReplaceBare(s.specs, s.changed_recipe,
                                        s.changed_recipe \o variant_str)
                            \o VariantVersions(s.changed_recipe, variant_str,
                                               s.versions)]

(* Which branch of the loop body a line takes. *)
IsBoundary(l)        == StartsWith(l, "diff --git")
IsEmpty(l)           == ~IsBoundary(l) /\ Len(l) = 0
IsSkipped(l)         == ~IsBoundary(l) /\ Len(l) > 0 /\ l[1] # "+"
(* an addition test that lets removed and context lines through *)
IsAddition_AnyLine(l) == ~IsBoundary(l) /\ Len(l) > 0

IsAddition(l)        == ~IsBoundary(l) /\ Len(l) > 0 /\ l[1] = "+"
IsChangedPath(l)     == IsAddition(l) /\ SearchChangedPath(l).found
(* a content test without the check of lines 141-142 *)
IsContent_NoRecipeCheck(s, l) == IsAddition(l) /\ ~SearchChangedPath(l).found

IsContent(s, l)      == IsAddition(l) /\ ~SearchChangedPath(l).found
                        /\ s.changed_recipe # <<>>
IsNoRecipe(s, l)     == IsAddition(l) /\ ~SearchChangedPath(l).found
                        /\ s.changed_recipe = <<>>
IsVersionStart(s, l) == IsContent(s, l) /\ SearchVersionStart(l)
IsVersion(s, l)      == IsContent(s, l) /\ ~SearchVersionStart(l)
                        /\ (s.next_line_is_version \/ SearchDecl("version(", l).found)
IsVariant(s, l)      == IsContent(s, l) /\ ~SearchVersionStart(l)
                        /\ ~(s.next_line_is_version \/ SearchDecl("version(", l).found)
                        /\ SearchDecl("variant(", l).found
IsOther(s, l)        == IsContent(s, l) /\ ~SearchVersionStart(l)
                        /\ ~(s.next_line_is_version \/ SearchDecl("version(", l).found)
                        /\ ~SearchDecl("variant(", l).found

(* lines 120-176: one iteration of the loop *)
LoopBody(s, l) ==
    CASE IsBoundary(l)        -> OnBoundary(s)
      [] IsEmpty(l)           -> OnEmpty(s)
      [] IsSkipped(l)         -> s
      [] IsChangedPath(l)     -> OnChangedPath(s, l)
      [] IsNoRecipe(s, l)     -> s
      [] IsVersionStart(s, l) -> OnVersionStart(s)
      [] IsVersion(s, l)      -> OnVersion(s, l)
      [] IsVariant(s, l)      -> OnVariant(s, l)
      [] IsOther(s, l)        -> s

(* The locals of the run in progress. *)
Cur == Run(specs, changed_recipe, versions, variants, next_line_is_version,
           pc = "raised")

----------------------------------------------------------------------------
(* get_specs_to_check as a state machine: one step per diff line.  The diff
   is the stdout of `gh pr diff`; its lines are chosen one at a time. *)

NoArgs == [download |-> FALSE, uninstall |-> FALSE, label_success |-> FALSE]

InitMainIdle ==
    /\ args = NoArgs
    /\ present = {}
    /\ installed = <<>>
    /\ passed = <<>>
    /\ failed = <<>>
    /\ rest = <<>>
    /\ cmds = <<>>

InitExpanderIdle ==
    /\ specs_to_check = <<>>
    /\ specs_in = <<>>
    /\ max_versions = 0
    /\ todo = <<>>
    /\ answers = <<>>
    /\ queries = <<>>

Init ==
    /\ pc = "gh"
    /\ status = -1
    /\ line = <<>>
    /\ nlines = 0
    /\ specs = <<>>
    /\ changed_recipe = <<>>
    /\ versions = <<>>
    /\ variants = <<>>
    /\ next_line_is_version = FALSE
    /\ cutAt = 0
    /\ specsA = <<>>
    /\ runB = FreshRun
    /\ recipes = <<>>
    /\ InitExpanderIdle
    /\ InitMainIdle

(* lines 115-118: run gh pr diff; exit on an error status or error output *)
RunGhPrDiff ==
    /\ pc = "gh"
    /\ \E err \in {0, 1}, stderr \in {<<>>, <<"no pull requests found">>} :
          IF err # 0 \/ stderr # <<>>
          THEN pc' = "exited" /\ status' = err
          ELSE pc' = "lines" /\ status' = status
    /\ UNCHANGED extractorVars
    /\ UNCHANGED <<expanderVars, mainVars>>

(* The run in progress takes the locals of s. *)
Store(s) ==
    /\ specs' = s.specs
    /\ changed_recipe' = s.changed_recipe
    /\ versions' = s.versions
    /\ variants' = s.variants
    /\ next_line_is_version' = s.next_line_is_version
    /\ pc' = IF s.raised THEN "raised" ELSE "lines"

(* The loop takes line l; the separate run on diff B takes it as well. *)
Take(l, s) ==
    /\ pc = "lines"
    /\ nlines < MaxLines
    /\ line' = l
    /\ nlines' = nlines + 1
    /\ Store(s)
    /\ runB' = IF cutAt > 0 THEN LoopBody(runB, l) ELSE runB
    /\ recipes' = OnRecipes(recipes, l)
    /\ UNCHANGED <<status, cutAt, specsA>>
    /\ UNCHANGED <<expanderVars, mainVars>>

(* lines 121-126 *)
Boundary ==
    /\ pc = "lines"
    /\ nlines < MaxLines
    /\ \E l \in Lines : IsBoundary(l) /\ Take(l, OnBoundary(Cur))

(* lines 121-126, the boundary marker being the one that separates diff A,
   the lines so far, from diff B, the lines to come *)
BoundaryCut ==
    /\ pc = "lines"
    /\ nlines < MaxLines
    /\ nlines >= 1
    /\ cutAt = 0
    /\ \E l \in Lines :
        /\ IsBoundary(l)
        /\ line' = l
        /\ nlines' = nlines + 1
        /\ Store(OnBoundary(Cur))
        /\ cutAt' = nlines + 1
        /\ specsA' = specs
        /\ runB' = FreshRun
        /\ UNCHANGED <<status, recipes>>
        /\ UNCHANGED <<expanderVars, mainVars>>

(* line 127 on an empty line *)
EmptyLineRaises ==
    /\ pc = "lines"
    /\ nlines < MaxLines
    /\ \E l \in Lines : IsEmpty(l) /\ Take(l, OnEmpty(Cur))

(* lines 127-128 *)
SkipLine ==
    /\ pc = "lines"
    /\ nlines < MaxLines
    /\ \E l \in Lines : IsSkipped(l) /\ Take(l, Cur)

(* lines 130-140 *)
ChangedPath ==
    /\ pc = "lines"
    /\ nlines < MaxLines
    /\ \E l \in Lines : IsChangedPath(l) /\ Take(l, OnChangedPath(Cur, l))

(* lines 141-142 *)
NoRecipe ==
    /\ pc = "lines"
    /\ nlines < MaxLines
    /\ \E l \in Lines : IsNoRecipe(Cur, l) /\ Take(l, Cur)

(* lines 145-148 *)
VersionStart ==
    /\ pc = "lines"
    /\ nlines < MaxLines
    /\ \E l \in Lines : IsVersionStart(Cur, l) /\ Take(l, OnVersionStart(Cur))

(* lines 149-159 *)
Version ==
    /\ pc = "lines"
    /\ nlines < MaxLines
    /\ \E l \in Lines : IsVersion(Cur, l) /\ Take(l, OnVersion(Cur, l))

(* lines 165-176 *)
Variant ==
    /\ pc = "lines"
    /\ nlines < MaxLines
    /\ \E l \in Lines : IsVariant(Cur, l) /\ Take(l, OnVariant(Cur, l))

(* line 165 without a match: the line changes nothing *)
OtherLine ==
    /\ pc = "lines"
    /\ nlines < MaxLines
    /\ \E l \in Lines : IsOther(Cur, l) /\ Take(l, Cur)

(* line 178: the loop is over; str.split yields at least one line *)
Return ==
    /\ pc = "lines"
    /\ nlines >= 1
    /\ pc' = "returned"
    /\ UNCHANGED status
    /\ UNCHANGED extractorVars
    /\ UNCHANGED <<expanderVars, mainVars>>

Next ==
    \/ RunGhPrDiff
    \/ Boundary
    \/ BoundaryCut
    \/ EmptyLineRaises
    \/ SkipLine
    \/ ChangedPath
    \/ NoRecipe
    \/ VersionStart
    \/ Version
    \/ Variant
    \/ OtherLine
    \/ Return

Spec == Init /\ [][Next]_vars

----------------------------------------------------------------------------
(* Properties of get_specs_to_check *)

SetOf(list) == {list[i] : i \in 1..Len(list)}

(* A bare spec has neither a version nor a variant. *)
IsBareSpec(x) == \A i \in 1..Len(x) : x[i] \notin {"@", "+"}

(* y is x followed by @version or +variant *)
MoreSpecific(y, x) ==
    /\ Len(y) > Len(x)
    /\ SubSeq(y, 1, Len(x)) = x
    /\ y[Len(x) + 1] \in {"@", "+"}

(* The version that a version declaration on an added line declares: the
   first quoted argument of version( *)
DeclaredVersion(l) ==
    LET S == {i \in 1..(Len(l) - 3) :
                 l[i] = "version(" /\ l[i + 1] = Q /\ l[i + 3] = Q}
    IN  IF IsAddition(l) /\ S # {} THEN Match(<<l[Min(S) + 2]>>) ELSE NoMatch

(* C1: overriding-insert invariant.  The collection never holds a bare
   recipe R together with a more specific entry R@version or R+variant. *)
C1_OverridingInsert ==
    \A i, j \in 1..Len(specs) :
        IsBareSpec(specs[i]) => ~MoreSpecific(specs[j], specs[i])

(* C2: when the line after the path marker of recipe R is a version
   declaration of version v, the collection then holds R@v and no bare R. *)
C2_VersionSupersedesBare ==
    [][\A r \in Recipes, l \in Lines :
          (/\ pc = "lines"
           /\ line = PathLine(r)
           /\ nlines' = nlines + 1
           /\ line' = l
           /\ DeclaredVersion(l).found)
          => (/\ In(<<r, "@">> \o DeclaredVersion(l).group, specs')
              /\ ~In(<<r>>, specs'))]_vars

(* C3: a variant line appends R+variant@version for every version seen
   earlier in the same file block; here the version declared by the line
   just before the variant line. *)
C3_VariantTimesVersion ==
    [][\A v \in VersionNames, a \in VariantNames :
          (/\ pc = "lines"
           /\ changed_recipe # <<>>
           /\ line = VersionDecl(v)
           /\ nlines' = nlines + 1
           /\ line' = VariantDecl(a))
          => In(changed_recipe \o <<"+", a, "@", v>>, specs')]_vars

(* Diff A is the lines before the cut, diff B the lines after it, and both
   are diffs of at least one line. *)
CutDone == cutAt > 0 /\ nlines > cutAt

(* C4 as stated: the specs of A, boundary marker, B are exactly the union of
   the specs of A alone and of B alone. *)
C4_UnionOfParts ==
    (pc = "returned" /\ CutDone)
        => SetOf(specs) = SetOf(specsA) \cup SetOf(runB.specs)

(* C4 as amended: parsing A, a boundary marker, B yields every spec of B
   alone and every spec of A alone except bare recipes for which B inserts a
   more specific spec, and nothing else; the parse context after the
   boundary marker is the one of B alone, and the run on the whole fails
   when the run on B alone does. *)
C4_UnionUpToSuperseded ==
    CutDone =>
        /\ (pc = "raised") = runB.raised
        /\ changed_recipe = runB.changed_recipe
        /\ versions = runB.versions
        /\ variants = runB.variants
        /\ next_line_is_version = runB.next_line_is_version
        /\ SetOf(specs) \subseteq SetOf(specsA) \cup SetOf(runB.specs)
        /\ SetOf(runB.specs) \subseteq SetOf(specs)
        /\ \A x \in SetOf(specsA) \ SetOf(specs) :
              /\ IsBareSpec(x)
              /\ \E y \in SetOf(runB.specs) : MoreSpecific(y, x)

(* C4 witness: a returned run in which B superseded a bare recipe of A and
   also contributed a spec of another recipe. *)
C4_Witness ==
    /\ pc = "returned"
    /\ CutDone
    /\ In(<<"foo">>, specsA)
    /\ ~In(<<"foo">>, specs)
    /\ \E y \in SetOf(runB.specs) : MoreSpecific(y, <<"foo">>)

(* C9: the collection never holds the same spec twice. *)
C9_NoDuplicates ==
    \A i, j \in 1..Len(specs) : i # j => specs[i] # specs[j]

(* C10: no diff line makes the extractor fail. *)
C10_NeverRaises == pc # "raised"

----------------------------------------------------------------------------
(* The version expander.  The output of `bin/spack versions --safe` is a
   sequence of lines, each line the sequence of its whitespace-separated
   words; the header line is one token. *)

Header == <<"==> Safe versions (already checksummed):">>

SkipVersions == <<<<"master">>, <<"develop">>, <<"main">>>>

(* What the safe-version query may answer for one recipe: (err, stdout). *)
Answers ==
    { [err |-> 0, stdout |-> <<Header, <<"master", "2.4", "2.3">>, <<"2.2", "2.1">>>>],
      [err |-> 0, stdout |-> <<Header, <<"1.0", "main", "0.9">>>>],
      [err |-> 0, stdout |-> <<Header, <<"master", "master", "1.0">>>>],
      [err |-> 0, stdout |-> <<Header, <<"develop">>>>],
      [err |-> 0, stdout |-> <<Header>>],
      [err |-> 1, stdout |-> <<>>],
      [err |-> 1, stdout |-> <<Header, <<"1.0">>>>] }

RecipeNames == {<<r>> : r \in Recipes}

(* Specs that get_specs_to_check returns and the expander is handed. *)
SpecPool ==
    {<<"foo">>, <<"bar">>, <<"foo", "@", "2.1">>, <<"foo", "+", "shared">>}

Collections ==
    UNION {[1..n -> SpecPool] : n \in 0..MaxSpecs}

(* s.split(sep)[0] *)
SplitFirst(s, sep) ==
    LET S == {i \in 1..Len(s) : s[i] = sep}
    IN  IF S = {} THEN s ELSE SubSeq(s, 1, Min(S) - 1)

(* list[:n], n of either sign *)
Slice(list, n) ==
    IF n >= 0
    THEN SubSeq(list, 1, IF n < Len(list) THEN n ELSE Len(list))
    ELSE SubSeq(list, 1, Len(list) + n)

(* lines 44-47: the words of every line that is not the header *)
RECURSIVE SafeWords(_)
SafeWords(stdout) ==
    IF stdout = <<>> THEN <<>>
    ELSE (IF StartsWith(Head(stdout), Header[1]) THEN <<>> ELSE Head(stdout))
         \o SafeWords(Tail(stdout))

(* lines 50-52: list.remove drops the first occurrence of each label *)
RECURSIVE RemoveSkipped(_, _)
RemoveSkipped(safe_versions, skip) ==
    IF skip = <<>> THEN safe_versions
    ELSE RemoveSkipped(IF In(Head(skip)[1], safe_versions)
                       THEN Remove(safe_versions, Head(skip)[1])
                       ELSE safe_versions,
                       Tail(skip))

(* a get_safe_versions that reads stdout whatever the exit status was *)
get_safe_versions_IgnoresErr(spec) ==
    RemoveSkipped(SafeWords(answers[SplitFirst(spec, "+")].stdout), SkipVersions)

(* lines 33-54 *)
get_safe_versions(spec) ==
    LET recipe == SplitFirst(spec, "+")
        ans    == answers[recipe]
        safe   == IF ans.err = 0 THEN SafeWords(ans.stdout) ELSE <<>>
    IN  RemoveSkipped(safe, SkipVersions)

(* line 188: recipe@version for each version of the slice *)
Versioned(recipe, vs) == [i \in 1..Len(vs) |-> recipe \o <<"@", vs[i]>>]

InitExtractorIdle ==
    /\ status = -1
    /\ line = <<>>
    /\ nlines = 0
    /\ specs = <<>>
    /\ changed_recipe = <<>>
    /\ versions = <<>>
    /\ variants = <<>>
    /\ next_line_is_version = FALSE
    /\ cutAt = 0
    /\ specsA = <<>>
    /\ runB = FreshRun
    /\ recipes = <<>>

(* The call expand_specs_to_check_package_versions(specs_to_check,
   max_versions); line 183 takes the copy that the loop walks through. *)
InitExpand ==
    /\ pc = "expand"
    /\ specs_to_check \in Collections
    /\ specs_in = specs_to_check
    /\ todo = specs_to_check
    /\ max_versions \in (-1)..MaxCap
    /\ answers \in [RecipeNames -> Answers]
    /\ queries = <<>>
    /\ InitExtractorIdle
    /\ InitMainIdle

(* lines 184-185 and 42: the query made for the next spec of the copy *)
Query(spec, found) ==
    [spec |-> spec, recipe |-> SplitFirst(SplitFirst(spec, "@"), "+"),
     found |-> found]

(* an expansion step whose loop walks the list itself, not the copy *)
ExpandVersions_WalksList ==
    /\ pc = "expand"
    /\ todo # <<>>
    /\ LET spec   == Head(todo)
           recipe == SplitFirst(spec, "@")
           vs     == get_safe_versions(recipe)
       IN  /\ vs # <<>>
           /\ specs_to_check' = Remove(specs_to_check, spec)
                                \o Versioned(recipe, Slice(vs, max_versions))
           /\ queries' = Append(queries, Query(spec, TRUE))
           /\ todo' = Tail(todo) \o Versioned(recipe, Slice(vs, max_versions))
    /\ UNCHANGED <<pc, specs_in, max_versions, answers>>
    /\ UNCHANGED <<status, extractorVars, mainVars>>

(* lines 183-188, the query returned versions *)
ExpandVersions ==
    /\ pc = "expand"
    /\ todo # <<>>
    /\ LET spec   == Head(todo)
           recipe == SplitFirst(spec, "@")
           vs     == get_safe_versions(recipe)
       IN  /\ vs # <<>>
           /\ specs_to_check' = Remove(specs_to_check, spec)
                                \o Versioned(recipe, Slice(vs, max_versions))
           /\ queries' = Append(queries, Query(spec, TRUE))
    /\ todo' = Tail(todo)
    /\ UNCHANGED <<pc, specs_in, max_versions, answers>>
    /\ UNCHANGED <<status, extractorVars, mainVars>>

(* lines 183-186, the query returned nothing *)
ExpandNothing ==
    /\ pc = "expand"
    /\ todo # <<>>
    /\ get_safe_versions(SplitFirst(Head(todo), "@")) = <<>>
    /\ queries' = Append(queries, Query(Head(todo), FALSE))
    /\ todo' = Tail(todo)
    /\ UNCHANGED <<pc, specs_to_check, specs_in, max_versions, answers>>
    /\ UNCHANGED <<status, extractorVars, mainVars>>

(* line 189 *)
ExpandReturn ==
    /\ pc = "expand"
    /\ todo = <<>>
    /\ pc' = "expanded"
    /\ UNCHANGED expanderVars
    /\ UNCHANGED <<status, extractorVars, mainVars>>

NextExpand ==
    \/ ExpandVersions
    \/ ExpandNothing
    \/ ExpandReturn

SpecExpand == InitExpand /\ [][NextExpand]_vars

----------------------------------------------------------------------------
(* main, lines 260-328, from the point where specs_to_check is final
   (after get_specs_to_check and the optional expansion), with
   check_all_downloads, find_already_installed, spack_uninstall_packages
   and spack_install.  cmds is the sequence of external commands run. *)

(* the specs main can hold at line 280 *)
MainPool ==
    {<<"foo">>, <<"bar", "@", "1.0">>, <<"composable-kernel">>}

MainCollections ==
    UNION {[1..n -> MainPool] : n \in 0..MaxSpecs}

(* the flags of parse_args, lines 240-257, that main reads after line 276 *)
ArgSets ==
    [download : BOOLEAN, uninstall : BOOLEAN, label_success : BOOLEAN]

(* exit statuses of a spawned or run command *)
ExitCodes == {0, 1}

(* the answers typed at the prompt of line 290 *)
Typed == {"y", "Y", "n"}

(* str.lower() of line 290 *)
Lower(answer) == IF answer = "Y" THEN "y" ELSE answer

Cmd(name, spec) == [cmd |-> name, spec |-> spec]

(* the loop of lines 293-294: list.remove drops the first occurrence *)
RECURSIVE RemoveAll(_, _)
RemoveAll(list, drop) ==
    IF drop = <<>> THEN list
    ELSE RemoveAll(Remove(list, Head(drop)), Tail(drop))

(* line 208 *)
IsSkippedInstall(spec) == StartsWith(spec, "composable-kernel")

(* present: the specs for which spack find exits 0 at line 62 *)
InitMain ==
    /\ pc = "main"
    /\ specs_to_check \in MainCollections
    /\ specs_in = specs_to_check
    /\ args \in ArgSets
    /\ present \in SUBSET MainPool
    /\ installed = <<>>
    /\ passed = <<>>
    /\ failed = <<>>
    /\ rest = <<>>
    /\ cmds = <<>>
    /\ max_versions = 0
    /\ todo = <<>>
    /\ answers = <<>>
    /\ queries = <<>>
    /\ InitExtractorIdle

mainIdle == <<specs_in, max_versions, todo, answers, queries>>

(* lines 280-281, entering check_all_downloads *)
StartDownload ==
    /\ pc = "main"
    /\ args.download
    /\ pc' = "fetch"
    /\ rest' = specs_to_check
    /\ UNCHANGED <<status, specs_to_check, args, present, installed, passed,
                   failed, cmds>>
    /\ UNCHANGED <<mainIdle, extractorVars>>

(* lines 195-199, one spec fetched; a failed fetch is returned by main *)
Fetch ==
    /\ pc = "fetch"
    /\ rest # <<>>
    /\ cmds' = Append(cmds, Cmd("fetch", Head(rest)))
    /\ \E ret \in ExitCodes :
          IF ret # 0
          THEN pc' = "done" /\ status' = ret /\ rest' = rest
          ELSE pc' = pc /\ status' = status /\ rest' = Tail(rest)
    /\ UNCHANGED <<specs_to_check, args, present, installed, passed, failed>>
    /\ UNCHANGED <<mainIdle, extractorVars>>

(* line 200 *)
FetchDone ==
    /\ pc = "fetch"
    /\ rest = <<>>
    /\ pc' = "done"
    /\ status' = 0
    /\ UNCHANGED <<specs_to_check, args, present, installed, passed, failed,
                   rest, cmds>>
    /\ UNCHANGED <<mainIdle, extractorVars>>

(* line 284, entering find_already_installed *)
StartFind ==
    /\ pc = "main"
    /\ ~args.download
    /\ pc' = "find"
    /\ rest' = specs_to_check
    /\ UNCHANGED <<status, specs_to_check, args, present, installed, passed,
                   failed, cmds>>
    /\ UNCHANGED <<mainIdle, extractorVars>>

(* lines 61-66, one spec looked up *)
Find ==
    /\ pc = "find"
    /\ rest # <<>>
    /\ cmds' = Append(cmds, Cmd("find", Head(rest)))
    /\ installed' = IF Head(rest) \in present
                    THEN Append(installed, Head(rest))
                    ELSE installed
    /\ rest' = Tail(rest)
    /\ UNCHANGED <<pc, status, specs_to_check, args, present, passed, failed>>
    /\ UNCHANGED <<mainIdle, extractorVars>>

(* lines 285-289: the prompt is shown only with --uninstall and a
   non-empty installed list *)
FindDone ==
    /\ pc = "find"
    /\ rest = <<>>
    /\ pc' = IF installed # <<>> /\ args.uninstall THEN "ask" ELSE "remove"
    /\ UNCHANGED <<status, specs_to_check, args, present, installed, passed,
                   failed, rest, cmds>>
    /\ UNCHANGED <<mainIdle, extractorVars>>

(* line 290 *)
Ask ==
    /\ pc = "ask"
    /\ \E answer \in Typed :
          IF Lower(answer) = "y"
          THEN pc' = "uninstall" /\ rest' = installed
          ELSE pc' = "remove" /\ rest' = rest
    /\ UNCHANGED <<status, specs_to_check, args, present, installed, passed,
                   failed, cmds>>
    /\ UNCHANGED <<mainIdle, extractorVars>>

(* lines 72-77, one spec uninstalled; a failure ends the process *)
Uninstall ==
    /\ pc = "uninstall"
    /\ rest # <<>>
    /\ cmds' = Append(cmds, Cmd("uninstall", Head(rest)))
    /\ \E ret \in ExitCodes :
          IF ret # 0
          THEN pc' = "exited" /\ status' = ret /\ rest' = rest
          ELSE pc' = pc /\ status' = status /\ rest' = Tail(rest)
    /\ UNCHANGED <<specs_to_check, args, present, installed, passed, failed>>
    /\ UNCHANGED <<mainIdle, extractorVars>>

(* line 292 *)
UninstallDone ==
    /\ pc = "uninstall"
    /\ rest = <<>>
    /\ installed' = <<>>
    /\ pc' = "remove"
    /\ UNCHANGED <<status, specs_to_check, args, present, passed, failed,
                   rest, cmds>>
    /\ UNCHANGED <<mainIdle, extractorVars>>

(* a main that leaves the installed specs in the collection *)
RemoveInstalled_KeepsAll ==
    /\ pc = "remove"
    /\ specs_to_check' = specs_to_check
    /\ rest' = specs_to_check'
    /\ pc' = "install"
    /\ UNCHANGED <<status, args, present, installed, passed, failed, cmds>>
    /\ UNCHANGED <<mainIdle, extractorVars>>

(* lines 293-296, up to the entry of spack_install *)
RemoveInstalled ==
    /\ pc = "remove"
    /\ specs_to_check' = RemoveAll(specs_to_check, installed)
    /\ rest' = specs_to_check'
    /\ pc' = "install"
    /\ UNCHANGED <<status, args, present, installed, passed, failed, cmds>>
    /\ UNCHANGED <<mainIdle, extractorVars>>

(* lines 208-210 *)
SkipInstall ==
    /\ pc = "install"
    /\ rest # <<>>
    /\ IsSkippedInstall(Head(rest))
    /\ rest' = Tail(rest)
    /\ UNCHANGED <<pc, status, specs_to_check, args, present, installed,
                   passed, failed, cmds>>
    /\ UNCHANGED <<mainIdle, extractorVars>>

(* an install step that records a failed build in both lists *)
Install_FailedAlsoPassed ==
    /\ pc = "install"
    /\ rest # <<>>
    /\ ~IsSkippedInstall(Head(rest))
    /\ cmds' = Append(cmds, Cmd("install", Head(rest)))
    /\ \E ret \in ExitCodes :
          IF ret = 0
          THEN passed' = Append(passed, Head(rest)) /\ failed' = failed
          ELSE passed' = Append(passed, Head(rest))
               /\ failed' = Append(failed, Head(rest))
    /\ rest' = Tail(rest)
    /\ UNCHANGED <<pc, status, specs_to_check, args, present, installed>>
    /\ UNCHANGED <<mainIdle, extractorVars>>

(* lines 212-226 *)
Install ==
    /\ pc = "install"
    /\ rest # <<>>
    /\ ~IsSkippedInstall(Head(rest))
    /\ cmds' = Append(cmds, Cmd("install", Head(rest)))
    /\ \E ret \in ExitCodes :
          IF ret = 0
          THEN passed' = Append(passed, Head(rest)) /\ failed' = failed
          ELSE passed' = passed /\ failed' = Append(failed, Head(rest))
    /\ rest' = Tail(rest)
    /\ UNCHANGED <<pc, status, specs_to_check, args, present, installed>>
    /\ UNCHANGED <<mainIdle, extractorVars>>

(* line 323 *)
Failing == failed # <<>> \/ passed \o installed = <<>>

(* lines 298-324, the report and the failing verdict *)
ReportFailure ==
    /\ pc = "install"
    /\ rest = <<>>
    /\ Failing
    /\ cmds' = Append(cmds, Cmd("find -v", <<>>))
    /\ status' = 1
    /\ pc' = "done"
    /\ UNCHANGED <<specs_to_check, args, present, installed, passed, failed,
                   rest>>
    /\ UNCHANGED <<mainIdle, extractorVars>>

(* lines 298-328, the report and the passing verdict *)
ReportSuccess ==
    /\ pc = "install"
    /\ rest = <<>>
    /\ ~Failing
    /\ cmds' = IF args.label_success
               THEN cmds \o <<Cmd("find -v", <<>>), Cmd("label", <<>>)>>
               ELSE Append(cmds, Cmd("find -v", <<>>))
    /\ status' = 0
    /\ pc' = "done"
    /\ UNCHANGED <<specs_to_check, args, present, installed, passed, failed,
                   rest>>
    /\ UNCHANGED <<mainIdle, extractorVars>>

NextMain ==
    \/ StartDownload
    \/ Fetch
    \/ FetchDone
    \/ StartFind
    \/ Find
    \/ FindDone
    \/ Ask
    \/ Uninstall
    \/ UninstallDone
    \/ RemoveInstalled
    \/ SkipInstall
    \/ Install
    \/ ReportFailure
    \/ ReportSuccess

SpecMain == InitMain /\ [][NextMain]_vars

----------------------------------------------------------------------------
(* Properties of expand_specs_to_check_package_versions *)

HasVersion(x) == \E i \in 1..Len(x) : x[i] = "@"

Count(list, x) == Cardinality({i \in 1..Len(list) : list[i] = x})

(* The list L that the query for recipe r returns: nothing on a non-success
   status, else the versions printed. *)
Returned(r) ==
    IF answers[r].err = 0 THEN SafeWords(answers[r].stdout) ELSE <<>>

IsStable(v) == v \notin {"master", "develop", "main"}

(* L without the development-channel labels *)
Stable(L) == SelectSeq(L, IsStable)

(* C5: a spec that has an @version is still in the returned collection and
   no safe-version query was made for it. *)
C5_VersionedUntouched ==
    pc = "expanded" =>
        /\ \A i \in 1..Len(specs_in) :
              HasVersion(specs_in[i]) => In(specs_in[i], specs_to_check)
        /\ \A k \in 1..Len(queries) : ~HasVersion(queries[k].spec)

(* C6: for a bare recipe R, a cap n > 0 and a query returning L with some
   version left after dropping the development labels, the step for R
   removes bare R and appends R@v for the first min(n, |L'|) versions v of
   L', L' being L without the development labels. *)
C6_ExpansionCap ==
    [][\A r \in RecipeNames :
          (/\ pc = "expand"
           /\ todo # <<>>
           /\ Head(todo) = r
           /\ todo' = Tail(todo)
           /\ max_versions > 0
           /\ Stable(Returned(r)) # <<>>)
          => specs_to_check' =
                Remove(specs_to_check, r)
                \o Versioned(r, Slice(Stable(Returned(r)), max_versions))]_vars

(* The query for recipe r reports a non-success status or no versions. *)
QueryFails(r) == answers[r].err # 0 \/ Returned(r) = <<>>

(* Number of specs before the i-th one of the input that were expanded. *)
ExpandedBefore(i) == Cardinality({k \in 1..(i - 1) : queries[k].found})

(* The X@version specs of a collection *)
VersionsOf(list, r) ==
    {x \in SetOf(list) : MoreSpecific(x, r) /\ x[Len(r) + 1] = "@"}

(* C7 as stated: after a failed query for X the bare spec X is in the
   collection as often as before, at the same position, and no X@version
   was added. *)
C7_KeptInPlace ==
    pc = "expanded" =>
        \A r \in RecipeNames :
            QueryFails(r) =>
                /\ Count(specs_to_check, r) = Count(specs_in, r)
                /\ \A i \in 1..Len(specs_in) :
                      specs_in[i] = r
                          => i <= Len(specs_to_check) /\ specs_to_check[i] = r
                /\ VersionsOf(specs_to_check, r) \subseteq VersionsOf(specs_in, r)

(* C7 as amended: after a failed query for X the bare spec X is in the
   collection as often as before, its position lowered by the number of
   specs before it that were expanded, and no X@version was added. *)
C7_KeptInOrder ==
    pc = "expanded" =>
        \A r \in RecipeNames :
            QueryFails(r) =>
                /\ Count(specs_to_check, r) = Count(specs_in, r)
                /\ \A i \in 1..Len(specs_in) :
                      specs_in[i] = r
                          => /\ i - ExpandedBefore(i) \in 1..Len(specs_to_check)
                             /\ specs_to_check[i - ExpandedBefore(i)] = r
                /\ VersionsOf(specs_to_check, r) \subseteq VersionsOf(specs_in, r)

(* C7 witness: the query for foo failed with an error status, foo is kept
   and a spec before it was expanded. *)
C7_Witness ==
    /\ pc = "expanded"
    /\ answers[<<"foo">>].err # 0
    /\ \E i \in 2..Len(specs_in) :
          /\ specs_in[i] = <<"foo">>
          /\ ExpandedBefore(i) > 0
          /\ specs_to_check[i - ExpandedBefore(i)] = <<"foo">>

(* C8: with max_versions <= 0 the collection is returned as passed in. *)
C8_NonPositiveCapNoOp ==
    (pc = "expanded" /\ max_versions <= 0) => specs_to_check = specs_in

----------------------------------------------------------------------------
(* Further properties of get_specs_to_check *)

(* The step takes one more diff line. *)
TakesLine == pc = "lines" /\ nlines' = nlines + 1

ContextUnchanged ==
    /\ changed_recipe' = changed_recipe
    /\ versions' = versions
    /\ variants' = variants
    /\ next_line_is_version' = next_line_is_version

(* the recipe of a spec: what precedes its first @ or + *)
RecipeOf(x) == SplitFirst(SplitFirst(x, "@"), "+")

(* C11: when gh pr diff reports a non-zero status or error output, the run
   ends with a non-success exit status before any line is extracted and
   before any build-tool command is issued. *)
C11_FetchFailureFatal ==
    pc = "exited" =>
        /\ status # 0
        /\ nlines = 0
        /\ specs = <<>>
        /\ queries = <<>>
        /\ cmds = <<>>

(* C12: a file-boundary marker clears the current recipe, the pending
   versions and variants and the awaiting-version flag, whatever they were,
   and leaves the Spec Collection unchanged. *)
C12_BoundaryResets ==
    [][(TakesLine /\ IsBoundary(line'))
          => /\ changed_recipe' = <<>>
             /\ versions' = <<>>
             /\ variants' = <<>>
             /\ next_line_is_version' = FALSE
             /\ specs' = specs
             /\ pc' = "lines"]_vars

(* C12 witness: a boundary marker was taken after a block that recorded a
   variant of a recipe, and the context is clear. *)
C12_Witness ==
    /\ pc = "lines"
    /\ line = BoundaryLine
    /\ changed_recipe = <<>>
    /\ variants = <<>>
    /\ ~next_line_is_version
    /\ In(<<"foo", "+", "shared">>, specs)

(* C13: a line that is not a boundary marker and does not start with +
   leaves the Spec Collection and every field of the parse context
   unchanged, whatever its text. *)
C13_OnlyAdditionsCount ==
    [][(TakesLine /\ ~IsBoundary(line') /\ ~StartsWith(line', "+"))
          => (specs' = specs /\ recipes' = recipes /\ ContextUnchanged)]_vars

(* C13 witness: with recipe foo active, a removed variant declaration or a
   context line holding a path marker was taken and foo is still the only
   spec and the current recipe. *)
C13_Witness ==
    /\ pc = "lines"
    /\ line \in {RemovedVariant, ContextPath, ContextVersion}
    /\ changed_recipe = <<"foo">>
    /\ specs = <<<<"foo">>>>

(* C14: while no package.py path marker has set a recipe since the last
   boundary marker, the recipe stays unset and added lines change neither
   the Spec Collection nor the parse context; every spec has as recipe a
   name taken from a matching path marker of the diff. *)
C14_NoRecipeNoSpecs ==
    [][(TakesLine /\ changed_recipe = <<>> /\ StartsWith(line', "+"))
          => /\ \/ SearchRecipe(SearchChangedPath(line').group).found
                \/ (specs' = specs /\ ContextUnchanged)
             /\ \A i \in 1..Len(specs') : In(RecipeOf(specs'[i]), recipes')]_vars

(* C14 witness: in a block whose path is not a package.py, after a block of
   a recipe, an added version or variant declaration was taken. *)
C14_Witness ==
    /\ pc = "lines"
    /\ line \in {VersionDecl(v) : v \in VersionNames}
                \cup {VariantDecl(a) : a \in VariantNames}
                \cup {VersionOpener}
    /\ changed_recipe = <<>>
    /\ specs = <<<<"foo">>>>
    /\ nlines >= 4

(* An added line that is scanned for declarations: a recipe is active and
   the line is no path marker. *)
Scanned(l) ==
    /\ StartsWith(l, "+")
    /\ ~SearchChangedPath(l).found
    /\ changed_recipe # <<>>

(* C15 as stated: a version opener sets the awaiting-version flag and
   changes nothing else; while the flag is set, a scanned line with a quoted
   token v inserts R@v and clears the flag; a scanned line without a quoted
   token leaves the flag set. *)
C15_FlagKeptUntilValue ==
    [][(TakesLine /\ Scanned(line'))
          => /\ SearchVersionStart(line')
                  => /\ next_line_is_version'
                     /\ specs' = specs
                     /\ changed_recipe' = changed_recipe
                     /\ versions' = versions
                     /\ variants' = variants
             /\ (/\ next_line_is_version
                 /\ SearchQuoted(line').found
                 /\ Len(SearchQuoted(line').group) = 1)
                  => /\ ~next_line_is_version'
                     /\ In(changed_recipe \o <<"@">> \o SearchQuoted(line').group,
                           specs')
                     /\ ~In(changed_recipe, specs')
             /\ (/\ next_line_is_version
                 /\ ~SearchVersionStart(line')
                 /\ ~SearchQuoted(line').found)
                  => next_line_is_version']_vars

(* The version value the patterns of lines 149 and 152 take from a line. *)
VersionValueOf(l) ==
    IF SearchDecl("version(", l).found
    THEN SearchDecl("version(", l)
    ELSE SearchQuoted(l)

(* C15 as amended: a version opener sets the awaiting-version flag and
   changes nothing else; while the flag is set, the next scanned line that
   is no opener clears the flag, whether it holds a quoted token or not; if
   it holds one, v, then R@v is appended and one bare R, if present, is
   removed; if it holds none the collection is unchanged and the pending
   version is dropped. *)
C15_TwoLineVersion ==
    [][(TakesLine /\ Scanned(line'))
          => /\ SearchVersionStart(line')
                  => /\ next_line_is_version'
                     /\ specs' = specs
                     /\ changed_recipe' = changed_recipe
                     /\ versions' = versions
                     /\ variants' = variants
             /\ (next_line_is_version /\ ~SearchVersionStart(line'))
                  => /\ ~next_line_is_version'
                     /\ changed_recipe' = changed_recipe
                     /\ IF VersionValueOf(line').found
                        THEN /\ specs'[Len(specs')] =
                                  changed_recipe \o <<"@">>
                                      \o VersionValueOf(line').group
                             /\ Len(specs') =
                                  IF In(changed_recipe, specs)
                                  THEN Len(specs) ELSE Len(specs) + 1
                             /\ Count(specs', changed_recipe) =
                                  IF In(changed_recipe, specs)
                                  THEN Count(specs, changed_recipe) - 1 ELSE 0
                        ELSE specs' = specs]_vars

(* C15 witness: the value line of a two-line declaration was taken for
   recipe foo and foo@4.0 replaced the bare foo. *)
C15_Witness ==
    /\ pc = "lines"
    /\ line = VersionValue
    /\ changed_recipe = <<"foo">>
    /\ ~next_line_is_version
    /\ specs = <<<<"foo", "@", "4.0">>>>

(* The entries of a collection that are not bare recipes, in order. *)
NotBare(x) == ~IsBareSpec(x)
Specific(list) == SelectSeq(list, NotBare)

(* C16: when a block of recipe R declares variant a and then variant b, the
   collection holds R+a and R+b, no bare R and no spec naming two variants,
   and the second variant line keeps every earlier R+variant and R@version
   entry as it was. *)
C16_VariantsAccumulate ==
    [][\A a, b \in VariantNames :
          (/\ TakesLine
           /\ changed_recipe # <<>>
           /\ a # b
           /\ line = VariantDecl(a)
           /\ In(changed_recipe \o <<"+", a>>, specs)
           /\ line' = VariantDecl(b))
          => /\ In(changed_recipe \o <<"+", a>>, specs')
             /\ In(changed_recipe \o <<"+", b>>, specs')
             /\ ~In(changed_recipe, specs')
             /\ \A i \in 1..Len(specs') :
                   Cardinality({k \in 1..Len(specs'[i]) : specs'[i][k] = "+"}) <= 1
             /\ SubSeq(Specific(specs'), 1, Len(Specific(specs)))
                    = Specific(specs)]_vars

----------------------------------------------------------------------------
(* Further properties of expand_specs_to_check_package_versions *)

DevLabels == {"master", "develop", "main"}

(* C17: no spec appended by the expander has a development-channel label
   as its version, and the cap counts only the versions left after the
   labels are dropped. *)
C17_DevLabelsFiltered ==
    [][(pc = "expand" /\ todo # <<>> /\ todo' = Tail(todo))
          => LET recipe   == SplitFirst(Head(todo), "@")
                 r        == SplitFirst(recipe, "+")
                 appended == SubSeq(specs_to_check', Len(specs_to_check),
                                    Len(specs_to_check'))
             IN  specs_to_check' # specs_to_check
                  => /\ \A i \in 1..Len(appended) :
                           appended[i][Len(appended[i])] \notin DevLabels
                     /\ max_versions >= 0
                          => Len(appended) =
                               Len(Slice(Stable(Returned(r)), max_versions))]_vars

(* C18: the expander walks a snapshot of the collection passed in: the
   queries made so far are those for the first entries of the input, one
   each and in input order, the entries still to visit are the rest of the
   input, and on return every input entry was queried exactly once. *)
C18_OneQueryPerEntry ==
    /\ Len(queries) <= Len(specs_in)
    /\ \A i \in 1..Len(queries) :
          /\ queries[i].spec = specs_in[i]
          /\ queries[i].recipe = RecipeOf(specs_in[i])
    /\ pc = "expand" => todo = SubSeq(specs_in, Len(queries) + 1, Len(specs_in))
    /\ pc = "expanded" => Len(queries) = Len(specs_in)

(* C18 witness: the expander returned after it appended specs, having made
   as many queries as the input has entries. *)
C18_Witness ==
    /\ pc = "expanded"
    /\ Len(specs_in) >= 2
    /\ Len(queries) = Len(specs_in)
    /\ Len(specs_to_check) > Len(specs_in)

----------------------------------------------------------------------------
(* Properties of main *)

IsInstallCmd(c) == c.cmd = "install"

IsUninstallCmd(c) == c.cmd = "uninstall"

SpecsOf(list) == [i \in 1..Len(list) |-> list[i].spec]

(* the specs handed to spack install so far, in order *)
Attempted == SpecsOf(SelectSeq(cmds, IsInstallCmd))

(* the specs handed to spack uninstall so far, in order *)
Uninstalled == SpecsOf(SelectSeq(cmds, IsUninstallCmd))

ReportedInstalled(x) == x \in present

(* the user confirmed the uninstall prompt *)
Confirmed == pc = "uninstall" \/ Uninstalled # <<>>

NotKept(x) == x \notin present \/ Confirmed

NotKeptNotSkipped(x) == NotKept(x) /\ ~IsSkippedInstall(x)

NotSkipped(x) == ~IsSkippedInstall(x)

InInstallPhase == ~args.download /\ pc \in {"install", "done"}

UninstallsBeforeInstalls ==
    /\ \A i, j \in 1..Len(cmds) :
          cmds[i].cmd = "uninstall" /\ cmds[j].cmd = "install" => i < j
    /\ Attempted # <<>> /\ Confirmed
          => Uninstalled = SelectSeq(specs_in, ReportedInstalled)

(* C19 as stated: the specs handed to spack install, together with those
   still to come, are the entries of the collection that were not reported
   installed (all entries once the user confirmed the uninstall), once per
   occurrence and in collection order, and every uninstall precedes every
   install. *)
C19_AllOthersAttempted ==
    /\ UninstallsBeforeInstalls
    /\ InInstallPhase
          => Attempted \o SelectSeq(rest, NotSkipped)
               = SelectSeq(specs_in, NotKept)

(* C19, amended: as above, for the entries whose text does not start with
   composable-kernel; those are skipped by the install loop and never
   handed to spack install.  A failed install does not stop the loop. *)
C19_OthersAttemptedButSkipped ==
    /\ UninstallsBeforeInstalls
    /\ InInstallPhase
          => /\ Attempted \o SelectSeq(rest, NotSkipped)
                  = SelectSeq(specs_in, NotKeptNotSkipped)
             /\ specs_to_check = SelectSeq(specs_in, NotKept)
             /\ \A i \in 1..Len(Attempted) : ~IsSkippedInstall(Attempted[i])
    /\ ~args.download /\ pc = "done" => rest = <<>>

(* C19 witness: main returned after the user confirmed the uninstall of an
   installed spec, the first install failed, a later one passed, and a
   composable-kernel entry of the collection was skipped. *)
C19_Witness ==
    /\ pc = "done"
    /\ ~args.download
    /\ Uninstalled # <<>>
    /\ Len(Attempted) >= 2
    /\ failed # <<>>
    /\ Attempted[1] = failed[1]
    /\ passed # <<>>
    /\ In(<<"composable-kernel">>, specs_in)

Labelled == \E i \in 1..Len(cmds) : cmds[i].cmd = "label"

(* C20: when main returns on the path without --download, it returns 0 if
   no install failed and the passed list or the installed list main still
   holds (emptied by a confirmed uninstall) is non-empty, and 1 otherwise;
   every spec handed to spack install is in exactly one of passed and
   failed, once per attempt; the label command was run only if main
   returned 0 with --label-success. *)
C20_Verdict ==
    /\ ~args.download /\ pc = "done"
          => /\ status \in {0, 1}
             /\ status = 0 <=> (failed = <<>> /\ passed \o installed # <<>>)
    /\ ~args.download
          => /\ Len(passed) + Len(failed) = Len(Attempted)
             /\ \A x \in MainPool :
                   Count(passed, x) + Count(failed, x) = Count(Attempted, x)
    /\ Labelled => pc = "done" /\ status = 0 /\ args.label_success

(* C20 witness: main returned 0 after an install passed beside a spec left
   installed, and labelled the pull request. *)
C20_Witness ==
    /\ pc = "done"
    /\ ~args.download
    /\ status = 0
    /\ passed # <<>>
    /\ installed # <<>>
    /\ Labelled

====
